---------------------------- MODULE Spec2Model ----------------------------
(***************************************************************************)
(* Model of the Google-Sheets combiner (src/app.py): the identifier        *)
(* resolver, the grid fetcher with its two acquisition paths, the table    *)
(* normaliser and the session-scoped Combiner.                             *)
(*                                                                         *)
(* A text cell is a string.  A pandas DataFrame is a record                *)
(*   [columns |-> sequence of names, rows |-> sequence of rows]            *)
(* where a row is a sequence of cells, one per column position.  Column    *)
(* names may repeat, as they may in pandas.  NaN is pandas' missing-value  *)
(* marker; it is a value different from every text cell, the empty string  *)
(* included.                                                               *)
(***************************************************************************)
EXTENDS Integers, Sequences, FiniteSets, TLC

VARIABLES
    sheets_data,            \* Combiner.sheets_data: the ordered sheet collection
    combined_data,          \* Combiner.combined_data: the cached combined table
    sheets_service,         \* Combiner.sheets_service: the channel the Combiner holds
    google_sheets_service,  \* st.session_state.google_sheets_service
    available_sheets_info,  \* st.session_state.available_sheets_info
    last_sheet_url_input,   \* st.session_state.last_sheet_url_input
    current_sheet_url_input,\* the content of the URL text box (widget state)
    call,                   \* the last operation invoked and its inputs
    ret                     \* what that operation returned and did

vars == <<sheets_data, combined_data, sheets_service, google_sheets_service,
          available_sheets_info, last_sheet_url_input, current_sheet_url_input,
          call, ret>>

session == <<sheets_data, combined_data, sheets_service, google_sheets_service,
             available_sheets_info, last_sheet_url_input, current_sheet_url_input>>

-----------------------------------------------------------------------------
(* Bounds of the model *)

MaxCols == 3        \* longest row of a generated raw grid
MaxRows == 3        \* most rows of a generated raw grid
MaxHeaderLen == 4   \* longest header list given to the header dedup alone
MaxSheets == 3      \* most sheets held by the Combiner

-----------------------------------------------------------------------------
(* Generic helpers *)

NaN == "<NaN>"

None == "<None>"

\* the result of an operation that has not run yet
Pending == [pending |-> TRUE]

Range(s) == {s[i] : i \in 1..Len(s)}

SeqsUpTo(S, n) == UNION {[1..k -> S] : k \in 0..n}

IsPrefixAt(pat, s, i) ==
    /\ i + Len(pat) - 1 <= Len(s)
    /\ \A k \in 1..Len(pat) : s[i + k - 1] = pat[k]

EmptyDataFrame == [columns |-> <<>>, rows |-> <<>>]

\* an emptiness test that looks at the columns only
NoColumns(df) == Len(df.columns) = 0

\* DataFrame.empty: some axis has length zero
IsEmpty(df) == Len(df.columns) = 0 \/ Len(df.rows) = 0

\* df[name] = value: overwrite the column when the name exists, append it otherwise
SetColumn(df, name, value) ==
    IF name \in Range(df.columns)
    THEN [columns |-> df.columns,
          rows |-> [r \in 1..Len(df.rows) |->
                      [c \in 1..Len(df.columns) |->
                          IF df.columns[c] = name THEN value ELSE df.rows[r][c]]]]
    ELSE [columns |-> Append(df.columns, name),
          rows |-> [r \in 1..Len(df.rows) |-> Append(df.rows[r], value)]]

-----------------------------------------------------------------------------
(* Identifier Resolver: GoogleSheetsCombiner.extract_sheet_id.  A URL is   *)
(* the sequence of its characters.                                         *)

Lower == {"a","b","c","d","e","f","g","h","i","j","k","l","m",
          "n","o","p","q","r","s","t","u","v","w","x","y","z"}

Upper == {"A","B","C","D","E","F","G","H","I","J","K","L","M",
          "N","O","P","Q","R","S","T","U","V","W","X","Y","Z"}

Digit == {"0","1","2","3","4","5","6","7","8","9"}

\* the character class [a-zA-Z0-9-_] of the pattern
IdChars == Lower \cup Upper \cup Digit \cup {"-", "_"}

\* the literal part of the pattern, '/spreadsheets/d/'
pattern == <<"/", "s", "p", "r", "e", "a", "d", "s", "h", "e", "e", "t", "s", "/", "d", "/">>

\* the positions at which the pattern '/spreadsheets/d/([a-zA-Z0-9-_]+)' matches
MatchStarts(url) ==
    {i \in 1..Len(url) :
        /\ IsPrefixAt(pattern, url, i)
        /\ i + Len(pattern) <= Len(url)
        /\ url[i + Len(pattern)] \in IdChars}

\* a match whose group stops at the first character instead of running greedily
ShortGroup(url, j) == j

\* the end of the greedy [...]+ group that starts at position j
GroupEnd(url, j) ==
    CHOOSE e \in j..Len(url) :
        /\ \A k \in j..e : url[k] \in IdChars
        /\ e = Len(url) \/ url[e + 1] \notin IdChars

\* re.search takes the leftmost match
FirstMatch(url) == CHOOSE i \in MatchStarts(url) : \A j \in MatchStarts(url) : i <= j

\* re.search(pattern, url); raise ValueError when there is no match, else group(1)
extract_sheet_id(url) ==
    IF MatchStarts(url) = {}
    THEN [ok |-> FALSE, error |-> "ValueError"]
    ELSE LET j == FirstMatch(url) + Len(pattern)
         IN  [ok |-> TRUE, id |-> SubSeq(url, j, GroupEnd(url, j))]

-----------------------------------------------------------------------------
(* Table Normaliser, authenticated path: the post-processing inside        *)
(* GoogleSheetsCombiner.fetch_sheet_data.  `values` is the raw grid, a     *)
(* sequence of rows of possibly different lengths.                         *)

Max(S) == CHOOSE m \in S : \A x \in S : x <= m

\* max(len(row) for row in values) if values else 0
max_cols(values) ==
    IF values = <<>> THEN 0 ELSE Max({Len(values[r]) : r \in 1..Len(values)})

\* a row that is left as received
unpadded_row(row, n) == row

\* row + [''] * (max_cols - len(row))
padded_row(row, n) == row \o [i \in 1..(n - Len(row)) |-> ""]

padded_values(values) ==
    [r \in 1..Len(values) |-> padded_row(values[r], max_cols(values))]

\* the header index is 0-based, as in the source
HeaderBeyond(values, header_row) == header_row - 1 >= Len(values)

header_idx(values, header_row) ==
    IF HeaderBeyond(values, header_row) THEN 0 ELSE header_row - 1

\* not header or header.strip() == ''
WhitespaceOnly == {" ", "  "}

IsBlank(header) == header = "" \/ header \in WhitespaceOnly

\* f'Column_{i+1}', i the 0-based position, so p = i + 1 is the 1-based one
ColumnName(p) == "Column_" \o ToString(p)

\* a suffix that counts occurrences instead of prior duplicates
SuffixedFromOne(header, count) == header \o "_" \o ToString(count + 1)

\* f"{header}_{header_count[header]}"
Suffixed(header, count) == header \o "_" \o ToString(count)

\* One pass of the dedup loop over names[p..]; header_count is the dict of
\* the names seen so far, unique the list built so far.
RECURSIVE DedupLoop(_, _, _, _, _)
DedupLoop(names, p, header_count, unique, fillBlank) ==
    IF p > Len(names) THEN unique
    ELSE LET header == IF fillBlank /\ IsBlank(names[p])
                       THEN ColumnName(p) ELSE names[p]
         IN  IF header \in DOMAIN header_count
             THEN DedupLoop(names, p + 1,
                            [header_count EXCEPT ![header] = @ + 1],
                            Append(unique, Suffixed(header, header_count[header] + 1)),
                            fillBlank)
             ELSE DedupLoop(names, p + 1,
                            (header :> 0) @@ header_count,
                            Append(unique, header),
                            fillBlank)

EmptyCount == [x \in {} |-> 0]

\* the loop of the authenticated path: blank headers are named, then deduplicated
unique_headers(headers) == DedupLoop(headers, 1, EmptyCount, <<>>, TRUE)

\* pd.DataFrame(data, columns=...): raises when a row's width is not the column count
DataFrameShapeOk(data, columns) ==
    \A r \in 1..Len(data) : Len(data[r]) = Len(columns)

\* sheet_name or f"Sheet_{sheet_id}_gid{gid}"
Provenance(sheet_name, sheet_id, gid) ==
    IF sheet_name \in {None, ""}
    THEN "Sheet_" \o sheet_id \o "_gid" \o gid
    ELSE sheet_name

\* a data slice that keeps the header row itself
DataRowsFromHeader(padded, idx) == SubSeq(padded, idx + 1, Len(padded))

\* padded_values[data_start_idx:]
DataRows(padded, idx) == SubSeq(padded, idx + 2, Len(padded))

\* lines 263-305: from the value range to the tagged DataFrame
NormalizeValues(values, header_row, provenance) ==
    IF values = <<>>
    THEN [df |-> EmptyDataFrame, notices |-> <<"warning:empty">>]
    ELSE LET padded  == padded_values(values)
             idx     == header_idx(values, header_row)
             headers == padded[idx + 1]
             unique  == unique_headers(headers)
             data    == DataRows(padded, idx)
             notes   == IF HeaderBeyond(values, header_row)
                        THEN <<"error:header_beyond">> ELSE <<>>
         IN  IF DataFrameShapeOk(data, unique)
             THEN [df |-> SetColumn([columns |-> unique, rows |-> data],
                                    "_source_sheet", provenance),
                   notices |-> notes]
             ELSE [df |-> EmptyDataFrame,
                   notices |-> Append(notes, "error:exception")]

-----------------------------------------------------------------------------
(* Public path: pd.read_csv over the CSV export, then the second dedup     *)
(* loop.  The CSV body is modelled by the grid of its lines' fields; the   *)
(* export endpoint writes every line with the same number of fields.       *)

\* what the export endpoint serves for a worksheet with the cells `values`
ExportCsv(values) == padded_values(values)

\* skip_blank_lines: a line without any field content is not a record
IsBlankLine(row) == Len(row) = 0 \/ (Len(row) = 1 /\ IsBlank(row[1]))

RECURSIVE Records(_)
Records(lines) ==
    IF lines = <<>> THEN <<>>
    ELSE IF IsBlankLine(Head(lines)) THEN Records(Tail(lines))
         ELSE <<Head(lines)>> \o Records(Tail(lines))

\* pandas names an empty header field 'Unnamed: <0-based position>'
Unnamed(p) == "Unnamed: " \o ToString(p - 1)

\* pandas' own duplicate mangling: 'X', 'X.1', 'X.2', skipping names in use
RECURSIVE Mangle(_, _, _)
Mangle(col, cur_count, counts) ==
    IF cur_count > 0
    THEN LET next == col \o "." \o ToString(cur_count)
             c2   == (col :> cur_count + 1) @@ counts
         IN  Mangle(next, IF next \in DOMAIN c2 THEN c2[next] ELSE 0, c2)
    ELSE [col |-> col, counts |-> (col :> cur_count + 1) @@ counts]

RECURSIVE DedupNames(_, _, _, _)
DedupNames(names, p, counts, acc) ==
    IF p > Len(names) THEN acc
    ELSE LET m == Mangle(names[p],
                         IF names[p] \in DOMAIN counts THEN counts[names[p]] ELSE 0,
                         counts)
         IN  DedupNames(names, p + 1, m.counts, Append(acc, m.col))

\* an empty field is read as NaN
NaCell(c) == IF c = "" THEN NaN ELSE c

\* pd.read_csv(io.StringIO(text), header=header_row-1)
read_csv(lines, header) ==
    LET recs == Records(lines)
    IN  IF recs = <<>> THEN [error |-> "EmptyDataError"]
        ELSE IF header >= Len(recs) THEN [error |-> "ParserError"]
        ELSE LET names == [p \in 1..Len(recs[header + 1]) |->
                              IF recs[header + 1][p] = "" THEN Unnamed(p)
                              ELSE recs[header + 1][p]]
                 body  == SubSeq(recs, header + 2, Len(recs))
             IN  [error |-> None,
                  df |-> [columns |-> DedupNames(names, 1, EmptyCount, <<>>),
                          rows |-> [r \in 1..Len(body) |->
                                       [c \in 1..Len(body[r]) |-> NaCell(body[r][c])]]]]

\* the loop of the public path: str(header), no blank check, then deduplicated
unique_headers_csv(columns) == DedupLoop(columns, 1, EmptyCount, <<>>, FALSE)

\* lines 330-347: from the CSV body to the tagged DataFrame
NormalizeCsv(lines, header_row, provenance) ==
    LET parsed == read_csv(lines, header_row - 1)
    IN  IF parsed.error = "EmptyDataError"
        THEN [df |-> EmptyDataFrame, notices |-> <<"warning:empty">>]
        ELSE IF parsed.error # None
        THEN [df |-> EmptyDataFrame, notices |-> <<"error:exception">>]
        ELSE [df |-> SetColumn([columns |-> unique_headers_csv(parsed.df.columns),
                                rows |-> parsed.df.rows],
                               "_source_sheet", provenance),
              notices |-> <<>>]

-----------------------------------------------------------------------------
(* Grid Fetcher: GoogleSheetsCombiner.fetch_sheet_data.  `remote` is what  *)
(* the contacted endpoint answers: [kind |-> "values", values |-> grid],   *)
(* [kind |-> "http", status |-> n], [kind |-> "html"] (the site's HTML     *)
(* shell, public channel only) or [kind |-> "exception"] (a timeout or any *)
(* other transport error).  The result records the DataFrame returned, the *)
(* messages raised and the channels contacted.                             *)

HttpNotice(status) ==
    IF status = 403 THEN "error:permission_denied"
    ELSE IF status = 404 THEN "error:not_found"
    ELSE "error:api"

FetchFailed(note, channels) ==
    [df |-> EmptyDataFrame, notices |-> <<note>>, contacted |-> channels]

\* lines 252-317
FetchAuthenticated(remote, sheet_name, sheet_id, gid, header_row) ==
    IF remote.kind = "values"
    THEN NormalizeValues(remote.values, header_row,
                         Provenance(sheet_name, sheet_id, gid))
            @@ [contacted |-> {"authenticated"}]
    ELSE IF remote.kind = "http"
    THEN FetchFailed(HttpNotice(remote.status), {"authenticated"})
    ELSE FetchFailed("error:exception", {"authenticated"})

\* a public fetch without the content-prefix check: the HTML shell goes to
\* the CSV parser
FetchPublicUnchecked(remote, sheet_name, sheet_id, gid, header_row) ==
    IF remote.kind \in {"values", "html"}
    THEN NormalizeCsv(IF remote.kind = "html"
                      THEN <<<<"<!DOCTYPE html>">>, <<"<html>">>>>
                      ELSE ExportCsv(remote.values),
                      header_row, Provenance(sheet_name, sheet_id, gid))
            @@ [contacted |-> {"public"}]
    ELSE FetchFailed("error:transport", {"public"})

\* lines 320-361
FetchPublic(remote, sheet_name, sheet_id, gid, header_row) ==
    IF remote.kind = "values"
    THEN NormalizeCsv(ExportCsv(remote.values), header_row,
                      Provenance(sheet_name, sheet_id, gid))
            @@ [contacted |-> {"public"}]
    ELSE IF remote.kind = "http"
    THEN FetchFailed(IF remote.status = 401 THEN "error:requires_authentication"
                     ELSE "error:transport", {"public"})
    ELSE IF remote.kind = "html"
    THEN FetchFailed("error:exception", {"public"})
    ELSE FetchFailed("error:transport", {"public"})

\* a fetch that goes on to the public export after the authenticated call
FetchBoth(service, remote, sheet_name, sheet_id, gid, header_row) ==
    LET r == FetchPublic(remote, sheet_name, sheet_id, gid, header_row)
    IN  [r EXCEPT !.contacted = IF service # None
                                THEN {"authenticated", "public"} ELSE {"public"}]

\* fetch_sheet_data: the channel is chosen by `if self.sheets_service`
fetch_sheet_data(service, remote, sheet_name, sheet_id, gid, header_row) ==
    IF service # None
    THEN FetchAuthenticated(remote, sheet_name, sheet_id, gid, header_row)
    ELSE FetchPublic(remote, sheet_name, sheet_id, gid, header_row)

-----------------------------------------------------------------------------
(* Sheet Directory: GoogleSheetsCombiner.get_sheet_info.  `remote` is what *)
(* the contacted endpoint answers: [kind |-> "metadata", sheets |-> the    *)
(* worksheet descriptors] from the API, [kind |-> "page", matches |-> what *)
(* each of the four patterns finds in the HTML, in pattern order] from the *)
(* public edit page, [kind |-> "http", status |-> n] or                    *)
(* [kind |-> "exception"].  A descriptor of the API has an integer sheetId *)
(* and a title; a match is the pair of strings re.findall returns, <<name, *)
(* gid>> for the first three patterns and <<gid, name>> for the fourth.    *)

DefaultSheets == <<[gid |-> "0", name |-> "Sheet1"]>>

ListResult(sheets, note, channels) ==
    [result |-> sheets, notices |-> <<note>>, contacted |-> channels]

\* the entries appended for the matches of the k-th pattern
Entries(k, found) ==
    [i \in 1..Len(found) |->
        IF k = 4 THEN [gid |-> found[i][1], name |-> found[i][2]]
        ELSE [gid |-> found[i][2], name |-> found[i][1]]]

\* a loop over the patterns that never breaks
RECURSIVE PatternLoopAll(_, _, _)
PatternLoopAll(matches, k, sheets_info) ==
    IF k > Len(matches) THEN sheets_info
    ELSE PatternLoopAll(matches, k + 1, sheets_info \o Entries(k, matches[k]))

\* for pattern in patterns: sheets_info grows by the pattern's matches; break
\* as soon as it is non-empty
RECURSIVE PatternLoop(_, _, _)
PatternLoop(matches, k, sheets_info) ==
    IF k > Len(matches) THEN sheets_info
    ELSE LET grown == sheets_info \o Entries(k, matches[k])
         IN  IF grown # <<>> THEN grown ELSE PatternLoop(matches, k + 1, grown)

\* an authenticated listing that falls back to the default entry
ListAuthenticatedDefault(remote) ==
    IF remote.kind = "metadata" /\ remote.sheets # <<>>
    THEN ListResult([k \in 1..Len(remote.sheets) |->
                        [gid |-> ToString(remote.sheets[k].sheetId),
                         name |-> remote.sheets[k].title]],
                    "success:api", {"authenticated"})
    ELSE ListResult(DefaultSheets, "warning:no_sheets", {"authenticated"})

\* lines 162-196
ListAuthenticated(remote) ==
    IF remote.kind = "metadata"
    THEN LET sheets_info == [k \in 1..Len(remote.sheets) |->
                                [gid |-> ToString(remote.sheets[k].sheetId),
                                 name |-> remote.sheets[k].title]]
         IN  IF sheets_info # <<>>
             THEN ListResult(sheets_info, "success:api", {"authenticated"})
             ELSE ListResult(<<>>, "warning:no_sheets", {"authenticated"})
    ELSE IF remote.kind = "http"
    THEN ListResult(<<>>, HttpNotice(remote.status), {"authenticated"})
    ELSE ListResult(<<>>, "error:exception", {"authenticated"})

\* lines 198-242
ListPublic(remote) ==
    IF remote.kind = "page"
    THEN LET sheets_info == PatternLoop(remote.matches, 1, <<>>)
         IN  IF sheets_info # <<>>
             THEN ListResult(sheets_info, "success:public", {"public"})
             ELSE ListResult(DefaultSheets, "warning:no_sheets", {"public"})
    ELSE IF remote.kind = "http"
    THEN ListResult(<<>>, IF remote.status = 401 THEN "error:requires_authentication"
                          ELSE "error:transport", {"public"})
    ELSE ListResult(<<>>, "error:transport", {"public"})

\* get_sheet_info: the channel is chosen by `if self.sheets_service`
get_sheet_info(service, remote) ==
    IF service # None THEN ListAuthenticated(remote) ELSE ListPublic(remote)

-----------------------------------------------------------------------------
(* Combiner: add_sheet, combine_sheets and the removal of a sheet *)

RECURSIVE Join(_)
Join(chars) == IF chars = <<>> THEN "" ELSE Head(chars) \o Join(Tail(chars))

\* add_sheet: the fetch, and the record appended when the DataFrame is not empty
add_sheet(service, remote, sheet_id, sheet_info, header_row, custom_name) ==
    LET sheet_name == sheet_info.name
        gid        == sheet_info.gid
        fetched    == fetch_sheet_data(service, remote, sheet_name, Join(sheet_id),
                                       gid, header_row)
        df         == fetched.df
    IN  IF ~IsEmpty(df)
        THEN [ok |-> TRUE, fetched |-> fetched,
              sheet |-> [id |-> sheet_id, gid |-> gid, name |-> sheet_name,
                         display_name |-> IF custom_name \notin {None, ""}
                                          THEN custom_name ELSE sheet_name,
                         data |-> df, header_row |-> header_row]]
        ELSE [ok |-> FALSE, fetched |-> fetched]

HasDuplicates(columns) ==
    \E c, d \in 1..Len(columns) : c # d /\ columns[c] = columns[d]

\* the columns of the frames in first-seen order
RECURSIVE UnionColumns(_, _)
UnionColumns(frames, acc) ==
    IF frames = <<>> THEN acc
    ELSE LET cols == Head(frames).columns
             new  == SelectSeq(cols, LAMBDA x : x \notin Range(acc))
         IN  UnionColumns(Tail(frames), acc \o new)

PositionOf(columns, name) == CHOOSE c \in 1..Len(columns) : columns[c] = name

\* a reindexing that fills a missing column with '' instead
ReindexEmptyString(frame, columns) ==
    [r \in 1..Len(frame.rows) |->
        [c \in 1..Len(columns) |->
            IF columns[c] \in Range(frame.columns)
            THEN frame.rows[r][PositionOf(frame.columns, columns[c])]
            ELSE ""]]

\* a frame's rows laid out on the columns `columns`; a column the frame lacks is NaN
Reindex(frame, columns) ==
    [r \in 1..Len(frame.rows) |->
        [c \in 1..Len(columns) |->
            IF columns[c] \in Range(frame.columns)
            THEN frame.rows[r][PositionOf(frame.columns, columns[c])]
            ELSE NaN]]

RECURSIVE ConcatRows(_, _)
ConcatRows(frames, columns) ==
    IF frames = <<>> THEN <<>>
    ELSE Reindex(Head(frames), columns) \o ConcatRows(Tail(frames), columns)

RECURSIVE StackRows(_)
StackRows(frames) ==
    IF frames = <<>> THEN <<>> ELSE Head(frames).rows \o StackRows(Tail(frames))

\* pd.concat(frames, ignore_index=True): frames with the same column index
\* are stacked as they are; otherwise the union of the columns is taken and
\* every frame reindexed on it, which pandas refuses (InvalidIndexError) for
\* a frame whose column names repeat.
concat(frames) ==
    IF \A k \in 1..Len(frames) : frames[k].columns = frames[1].columns
    THEN [error |-> None,
          df |-> [columns |-> frames[1].columns, rows |-> StackRows(frames)]]
    ELSE IF \E k \in 1..Len(frames) : HasDuplicates(frames[k].columns)
    THEN [error |-> "InvalidIndexError"]
    ELSE LET columns == UnionColumns(frames, <<>>)
         IN  [error |-> None,
              df |-> [columns |-> columns, rows |-> ConcatRows(frames, columns)]]

\* a combine that drops the cache before it looks at the sheets
CombineResetting(sheets) ==
    IF sheets = <<>> THEN [error |-> None, df |-> EmptyDataFrame]
    ELSE concat([k \in 1..Len(sheets) |-> sheets[k].data])

\* combine_sheets: raises ValueError without sheets, else caches and returns
\* the concatenation
combine_sheets(sheets) ==
    IF sheets = <<>> THEN [error |-> "ValueError"]
    ELSE concat([k \in 1..Len(sheets) |-> sheets[k].data])

\* get_summary: columns and counts of the cached combined table, and one
\* entry per sheet held
get_summary(sheets, combined) ==
    [columns       |-> combined.columns,
     total_rows    |-> Len(combined.rows),
     total_columns |-> Len(combined.columns),
     sheets        |-> [k \in 1..Len(sheets) |->
                          [name       |-> sheets[k].display_name,
                           rows       |-> Len(sheets[k].data.rows),
                           header_row |-> sheets[k].header_row]]]

\* a removal that deletes the sheet after the one asked for
PopNext(sheets, position) ==
    LET q == IF position < Len(sheets) THEN position + 1 ELSE position
    IN  [k \in 1..(Len(sheets) - 1) |-> IF k < q THEN sheets[k] ELSE sheets[k + 1]]

\* sheets_data.pop(i), i = position - 1
Pop(sheets, position) ==
    [k \in 1..(Len(sheets) - 1) |->
        IF k < position THEN sheets[k] ELSE sheets[k + 1]]

-----------------------------------------------------------------------------
(* Inputs of the bounded checks *)

Service == "service"

\* header cells: blank, a name, a name of the suffixed form, the synthetic name
HeaderCells == {"", "A", "A_1", "_source_sheet"}

\* a data cell that names its own position in the raw grid
CellAt(r, c) == "r" \o ToString(r) \o "c" \o ToString(c)

RowAt(r, n) == [c \in 1..n |-> CellAt(r, c)]

\* The grid of Len(lens) + 1 rows whose row at the (clamped) header index is
\* hdr and whose other rows have the lengths lens, in order.
GridOf(hdr, lens, header_row) ==
    LET n == Len(lens) + 1
        h == (IF header_row - 1 >= n THEN 0 ELSE header_row - 1) + 1
    IN  [r \in 1..n |-> IF r = h THEN hdr
                        ELSE RowAt(r, lens[IF r < h THEN r ELSE r - 1])]

\* the scenarios of the specification, with their header rows
ExampleCalls ==
    { [values |-> <<<<"Name", "Age">>, <<"Bob", "30">>, <<"Ann", "28">>>>, header_row |-> 1],
      [values |-> <<<<"t">>, <<"Name", " ", "Name">>, <<"x">>, <<"", "y", "z">>>>,
       header_row |-> 2],
      [values |-> <<<<"A", "A", "A_1">>, <<"x", "y", "z">>>>, header_row |-> 1],
      [values |-> <<<<>>, <<"H">>, <<>>, <<"v">>>>, header_row |-> 2] }

\* The value range of the API leaves out trailing empty cells and trailing
\* empty rows, so no row ends in '' and the last row is not empty.
ApiGrid(v) ==
    /\ v # <<>>
    /\ v[Len(v)] # <<>>
    /\ \A r \in 1..Len(v) : v[r] # <<>> => v[r][Len(v[r])] # ""

GridInputs ==
    SeqsUpTo(HeaderCells, MaxCols) \X SeqsUpTo(0..MaxCols, MaxRows - 1)
        \X (1..(MaxRows + 1))

GeneratedCalls ==
    { c \in { [values |-> GridOf(x[1], x[2], x[3]), header_row |-> x[3]] :
                 x \in GridInputs } : ApiGrid(c.values) }

\* what an endpoint can answer besides a grid
RemoteFailures ==
    {[kind |-> "http", status |-> st] : st \in {401, 403, 404, 500}}
        \cup {[kind |-> "html"], [kind |-> "exception"], [kind |-> "values", values |-> <<>>]}

FetchCalls ==
    { [op |-> "fetch_sheet_data", remote |-> [kind |-> "values", values |-> c.values],
       header_row |-> c.header_row, sheet_name |-> "S1", sheet_id |-> "doc1", gid |-> "0"] :
        c \in ExampleCalls \cup GeneratedCalls }
    \cup
    { [op |-> "fetch_sheet_data", remote |-> f,
       header_row |-> 1, sheet_name |-> "S1", sheet_id |-> "doc1", gid |-> "0"] :
        f \in RemoteFailures }

\* the state of a session that holds no sheet, with or without a credential
FreshSession(service) ==
    /\ sheets_data = <<>>
    /\ combined_data = EmptyDataFrame
    /\ sheets_service = service
    /\ google_sheets_service = service
    /\ available_sheets_info = <<>>
    /\ last_sheet_url_input = <<>>
    /\ current_sheet_url_input = <<>>

-----------------------------------------------------------------------------
(* SpecFetch: fetch_sheet_data applied to every bounded grid, header row   *)
(* and remote failure, on either path.                                     *)

InitFetch ==
    /\ \E service \in {None, Service} : FreshSession(service)
    /\ call \in FetchCalls
    /\ ret = Pending

Fetch ==
    /\ call.op = "fetch_sheet_data"
    /\ ret = Pending
    /\ ret' = fetch_sheet_data(sheets_service, call.remote, call.sheet_name,
                               call.sheet_id, call.gid, call.header_row)
    /\ UNCHANGED <<session, call>>

NextFetch == Fetch

SpecFetch == InitFetch /\ [][NextFetch]_vars

-----------------------------------------------------------------------------
(* SpecHeaders: the header dedup loop of the authenticated path applied to *)
(* every bounded header list.                                              *)

HeaderNames == {"", " ", "A", "A_1", "B"}

InitHeaders ==
    /\ FreshSession(Service)
    /\ call \in {[op |-> "unique_headers", headers |-> h] :
                    h \in SeqsUpTo(HeaderNames, MaxHeaderLen)}
    /\ ret = Pending

Dedup ==
    /\ call.op = "unique_headers"
    /\ ret = Pending
    /\ ret' = [value |-> unique_headers(call.headers)]
    /\ UNCHANGED <<session, call>>

NextHeaders == Dedup

SpecHeaders == InitHeaders /\ [][NextHeaders]_vars

\* the name a header cell stands for once blanks are filled in
NameAt(h, p) == IF h[p] = "" \/ h[p] \in {" ", "  "} THEN "Column_" \o ToString(p) ELSE h[p]

\* how many earlier positions stand for the same name
PriorSame(h, p) == Cardinality({q \in 1..(p - 1) : NameAt(h, q) = NameAt(h, p)})

AlreadyUnique(h) ==
    /\ \A p \in 1..Len(h) : h[p] # "" /\ h[p] \notin {" ", "  "}
    /\ \A p, q \in 1..Len(h) : p # q => h[p] # h[q]

\* C6: a blank or whitespace-only header at 1-based position p becomes
\* Column_p; the first occurrence of a name is kept and its k-th later
\* occurrence becomes <name>_k; ["A","A","","A"] gives
\* ["A","A_1","Column_3","A_2"]; already unique non-blank names are unchanged.
C6_HeaderNaming ==
    (call.op = "unique_headers" /\ ret # Pending) =>
        LET h == call.headers
            u == ret.value
        IN  /\ Len(u) = Len(h)
            /\ \A p \in 1..Len(h) :
                  u[p] = IF PriorSame(h, p) = 0 THEN NameAt(h, p)
                         ELSE NameAt(h, p) \o "_" \o ToString(PriorSame(h, p))
            /\ h = <<"A", "A", "", "A">> => u = <<"A", "A_1", "Column_3", "A_2">>
            /\ AlreadyUnique(h) => u = h

C6_Witness ==
    /\ call.op = "unique_headers"
    /\ call.headers = <<"A", "A", "", "A">>
    /\ ret = [value |-> <<"A", "A_1", "Column_3", "A_2">>]

-----------------------------------------------------------------------------
(* Properties of the normalised table, over SpecFetch *)

\* a grid was fetched and post-processed
Normalized ==
    /\ call.op = "fetch_sheet_data"
    /\ ret # Pending
    /\ call.remote.kind = "values"
    /\ call.remote.values # <<>>

ViaAuthenticated == sheets_service # None

\* n is the length of the longest row of the grid v
IsLongest(v, n) ==
    /\ \A r \in 1..Len(v) : Len(v[r]) <= n
    /\ \E r \in 1..Len(v) : Len(v[r]) = n

\* the cell of a row at a position, the empty string beyond the row's end
CellOrEmpty(row, c) == IF c <= Len(row) THEN row[c] ELSE ""

\* the 1-based row taken as header: header_row, or row 1 when it is beyond the grid
HeaderRowUsed(v, header_row) == IF header_row <= Len(v) THEN header_row ELSE 1

\* C7: the column names of the normalised table are pairwise distinct and
\* non-empty, and every data row holds exactly one value per declared column.
C7_UniqueColumns ==
    Normalized =>
        LET t == ret.df
        IN  /\ \A c, d \in 1..Len(t.columns) : c # d => t.columns[c] # t.columns[d]
            /\ \A c \in 1..Len(t.columns) : t.columns[c] # ""
            /\ \A r \in 1..Len(t.rows) : Len(t.rows[r]) = Len(t.columns)

\* C8: on either path a header_row beyond the available rows does not make
\* the fetch fail: a correction notice is raised and the table has row 1 as
\* header and all later rows as data.
C8_HeaderClamp ==
    (Normalized /\ call.header_row > Len(call.remote.values)) =>
        /\ "error:exception" \notin Range(ret.notices)
        /\ "error:header_beyond" \in Range(ret.notices)
        /\ Len(ret.df.columns) >= 1

\* C9: every row of the produced table holds exactly max_cols values (beside
\* its provenance), max_cols the length of the longest input row; each input
\* cell stays at its column position, short rows being filled with ''.
C9_Padding ==
    (Normalized /\ ViaAuthenticated) =>
        LET v == call.remote.values
            h == HeaderRowUsed(v, call.header_row)
            t == ret.df
        IN  /\ Len(t.rows) = Len(v) - h
            /\ \A r \in 1..Len(t.rows) :
                  /\ IsLongest(v, Len(t.rows[r]) - 1)
                  /\ \A c \in 1..(Len(t.rows[r]) - 1) :
                        t.rows[r][c] = CellOrEmpty(v[h + r], c)

\* C10: the names come from the header row; the data rows are exactly the
\* padded rows strictly after it, in their order; every produced row has
\* _source_sheet set to the provenance string.
C10_Normalize ==
    (Normalized /\ ViaAuthenticated) =>
        LET v == call.remote.values
            h == HeaderRowUsed(v, call.header_row)
            t == ret.df
        IN  /\ Len(t.rows) = Len(v) - h
            /\ "_source_sheet" \in Range(t.columns)
            /\ \A c \in 1..Len(t.columns) :
                  \/ t.columns[c] = "_source_sheet"
                  \/ LET name == NameAt([p \in 1..c |-> CellOrEmpty(v[h], p)], c)
                     IN  \/ t.columns[c] = name
                         \/ \E k \in 1..c : t.columns[c] = name \o "_" \o ToString(k)
            /\ \A r \in 1..Len(t.rows) :
                  /\ Len(t.rows[r]) = Len(t.columns)
                  /\ \A c \in 1..Len(t.columns) :
                        t.rows[r][c] = IF t.columns[c] = "_source_sheet"
                                       THEN call.sheet_name
                                       ELSE CellOrEmpty(v[h + r], c)
            /\ (v = <<<<"Name", "Age">>, <<"Bob", "30">>, <<"Ann", "28">>>>
                    /\ call.header_row = 1) =>
                  t = [columns |-> <<"Name", "Age", "_source_sheet">>,
                       rows |-> <<<<"Bob", "30", "S1">>, <<"Ann", "28", "S1">>>>]

C10_Witness ==
    /\ Normalized /\ ViaAuthenticated
    /\ call.remote.values = <<<<"Name", "Age">>, <<"Bob", "30">>, <<"Ann", "28">>>>
    /\ call.sheet_name = "S1"
    /\ ret.df.columns = <<"Name", "Age", "_source_sheet">>
    /\ Len(ret.df.rows) = 2
    /\ \A r \in 1..2 : ret.df.rows[r][3] = "S1"

\* C13: fetch_sheet_data raises nothing and always returns a table: every
\* remote failure on either path (permission denied, not found, any other
\* API or transport error, a timeout, the HTML shell in place of the CSV,
\* which is not parsed) and an empty worksheet give the empty table, with
\* one message.
C13_FailuresGiveEmptyTable ==
    (call.op = "fetch_sheet_data" /\ ret # Pending) =>
        /\ DOMAIN ret = {"df", "notices", "contacted"}
        /\ \A r \in 1..Len(ret.df.rows) : Len(ret.df.rows[r]) = Len(ret.df.columns)
        /\ (call.remote.kind # "values" \/ call.remote.values = <<>>) =>
              /\ ret.df = EmptyDataFrame
              /\ Len(ret.notices) = 1
        /\ call.remote.kind = "values" /\ call.remote.values = <<>> =>
              ret.notices = <<"warning:empty">>
        /\ call.remote.kind = "http" /\ ViaAuthenticated =>
              ret.notices = <<IF call.remote.status = 403 THEN "error:permission_denied"
                              ELSE IF call.remote.status = 404 THEN "error:not_found"
                              ELSE "error:api">>

\* the public export answers with the HTML shell: an empty table, one error
C13_Witness ==
    /\ call.op = "fetch_sheet_data" /\ ret # Pending
    /\ ~ViaAuthenticated
    /\ call.remote.kind = "html"
    /\ ret = [df |-> EmptyDataFrame, notices |-> <<"error:exception">>,
              contacted |-> {"public"}]

\* what the other acquisition path makes of the same worksheet
OtherPath ==
    IF ViaAuthenticated
    THEN FetchPublic(call.remote, call.sheet_name, call.sheet_id, call.gid,
                     call.header_row)
    ELSE FetchAuthenticated(call.remote, call.sheet_name, call.sheet_id, call.gid,
                            call.header_row)

\* C12: for the same raw grid, header_row and worksheet the table produced
\* through the authenticated path and the one produced through the public
\* CSV path are identical.
C12_SamePostProcessing ==
    Normalized => ret.df = OtherPath.df

-----------------------------------------------------------------------------
(* SpecUrl: extract_sheet_id applied to every URL built from at most       *)
(* MaxUrlParts parts, and to the two URLs of the specification's scenario. *)

MaxUrlParts == 4

Host == <<"h", "t", "t", "p", "s", ":", "/", "/", "d", "o", "c", "s", ".", "g", "o", "o", "g", "l", "e", ".", "c", "o", "m">>

DocUrl == Host \o pattern \o <<"1", "A", "2", "b", "3", "C">> \o <<"/", "e", "d", "i", "t", "#", "g", "i", "d", "=", "0">>

NopeUrl == <<"h", "t", "t", "p", "s", ":", "/", "/", "e", "x", "a", "m", "p", "l", "e", ".", "c", "o", "m", "/", "n", "o", "p", "e">>

DocId == <<"1", "A", "2", "b", "3", "C">>

UrlParts == {Host, pattern, <<"/", "s", "p", "r", "e", "a", "d", "s", "h", "e", "e", "t", "s", "/", "d">>, <<"/">>, <<"1">>, <<"A">>, <<"_">>, <<"#">>}

RECURSIVE Flatten(_)
Flatten(parts) == IF parts = <<>> THEN <<>> ELSE Head(parts) \o Flatten(Tail(parts))

Urls == {Flatten(parts) : parts \in SeqsUpTo(UrlParts, MaxUrlParts)} \cup {DocUrl, NopeUrl}

InitUrl ==
    /\ FreshSession(None)
    /\ call \in {[op |-> "extract_sheet_id", url |-> u] : u \in Urls}
    /\ ret = Pending

Extract ==
    /\ call.op = "extract_sheet_id"
    /\ ret = Pending
    /\ ret' = extract_sheet_id(call.url) @@ [contacted |-> {}]
    /\ UNCHANGED <<session, call>>

NextUrl == Extract

SpecUrl == InitUrl /\ [][NextUrl]_vars

IsIdChar(ch) ==
    ch \in {"a","b","c","d","e","f","g","h","i","j","k","l","m","n","o","p","q","r",
            "s","t","u","v","w","x","y","z","A","B","C","D","E","F","G","H","I","J",
            "K","L","M","N","O","P","Q","R","S","T","U","V","W","X","Y","Z",
            "0","1","2","3","4","5","6","7","8","9","_","-"}

\* '/spreadsheets/d/' stands at position i and an identifier character follows
Occurs(url, i) ==
    /\ i + 16 <= Len(url)
    /\ SubSeq(url, i, i + 15) = <<"/", "s", "p", "r", "e", "a", "d", "s", "h", "e", "e", "t", "s", "/", "d", "/">>
    /\ IsIdChar(url[i + 16])

\* url[i..] is a segment /spreadsheets/d/<id>/ whose identifier ends at e
SegmentAt(url, i, e) ==
    /\ Occurs(url, i)
    /\ e >= i + 16 /\ e < Len(url)
    /\ \A k \in (i + 16)..e : IsIdChar(url[k])
    /\ url[e + 1] = "/"

Segments(url) ==
    {x \in (1..Len(url)) \X (1..Len(url)) : SegmentAt(url, x[1], x[2])}

Extracted == call.op = "extract_sheet_id" /\ ret # Pending

\* C5 as stated: the identifier of the segment /spreadsheets/d/<id>/ is
\* returned, and every URL without such a segment gives the invalid-URL error.
C5_SegmentWithSlash ==
    Extracted =>
        IF Segments(call.url) = {}
        THEN ~ret.ok
        ELSE /\ ret.ok
             /\ \E x \in Segments(call.url) : ret.id = SubSeq(call.url, x[1] + 16, x[2])

\* C5 as amended: the result is the longest run of identifier characters
\* after the first '/spreadsheets/d/' that is followed by an identifier
\* character, with or without a '/' after it; the error is raised exactly
\* when there is no such place; no channel is contacted.
C5_LongestRunAfterFirstMatch ==
    Extracted =>
        LET url == call.url
        IN  /\ ret.ok <=> \E i \in 1..Len(url) : Occurs(url, i)
            /\ ~ret.ok => ret.error = "ValueError"
            /\ ret.ok =>
                  \E i \in 1..Len(url) :
                      /\ Occurs(url, i)
                      /\ \A j \in 1..(i - 1) : ~Occurs(url, j)
                      /\ Len(ret.id) >= 1
                      /\ ret.id = SubSeq(url, i + 16, i + 15 + Len(ret.id))
                      /\ \A k \in 1..Len(ret.id) : IsIdChar(ret.id[k])
                      /\ \/ i + 16 + Len(ret.id) > Len(url)
                         \/ ~IsIdChar(url[i + 16 + Len(ret.id)])
            /\ url = DocUrl => ret.ok /\ ret.id = DocId
            /\ url = NopeUrl => ~ret.ok
            /\ ret.contacted = {}

\* an identifier that runs to the end of the URL, no '/' after it
C5_Witness ==
    /\ Extracted
    /\ call.url = pattern \o <<"1", "A">>
    /\ ret.ok /\ ret.id = <<"1", "A">>

-----------------------------------------------------------------------------
(* SpecList: get_sheet_info applied, with and without a service, to every  *)
(* answer of the contacted endpoint: up to MaxListed worksheet descriptors *)
(* from the API, up to MaxListed matches of each of the four patterns in   *)
(* the public page, and the failures.                                      *)

MaxListed == 2

ApiDescriptors == {[sheetId |-> 0, title |-> "S1"], [sheetId |-> 7, title |-> "S2"],
                   [sheetId |-> 7, title |-> "S1"]}

\* <<name, gid>> as the first three patterns capture them
PageMatches == {<<"S1", "0">>, <<"S2", "7">>}

Swapped(found) == [i \in 1..Len(found) |-> <<found[i][2], found[i][1]>>]

PageAnswers ==
    {[kind |-> "page", matches |-> <<m[1], m[2], m[3], Swapped(m[4])>>] :
        m \in [1..4 -> SeqsUpTo(PageMatches, MaxListed)]}

ListCalls(service) ==
    {[op |-> "get_sheet_info", remote |-> r] :
        r \in IF service # None
              THEN {[kind |-> "metadata", sheets |-> d] :
                        d \in SeqsUpTo(ApiDescriptors, MaxListed)}
                   \cup {[kind |-> "http", status |-> st] : st \in {403, 404, 500}}
                   \cup {[kind |-> "exception"]}
              ELSE PageAnswers
                   \cup {[kind |-> "http", status |-> st] : st \in {401, 404}}
                   \cup {[kind |-> "exception"]}}

InitList ==
    /\ \E service \in {None, Service} :
          /\ FreshSession(service)
          /\ call \in ListCalls(service)
    /\ ret = Pending

List ==
    /\ call.op = "get_sheet_info"
    /\ ret = Pending
    /\ ret' = get_sheet_info(sheets_service, call.remote)
    /\ UNCHANGED <<session, call>>

NextList == List

SpecList == InitList /\ [][NextList]_vars

WasListed == call.op = "get_sheet_info" /\ ret # Pending

\* C14: with a service held, each descriptor of the API gives one entry (its
\* id as text, its title) in the returned order; 403, 404 and any other
\* failure have a message each, an empty result set gives a warning, and in
\* all of these the result is the empty sequence; nothing is raised.
C14_AuthenticatedListing ==
    (WasListed /\ sheets_service # None) =>
        LET remote == call.remote
        IN  /\ DOMAIN ret = {"result", "notices", "contacted"}
            /\ (remote.kind = "metadata" /\ remote.sheets # <<>>) =>
                  /\ Len(ret.result) = Len(remote.sheets)
                  /\ \A k \in 1..Len(remote.sheets) :
                        /\ ret.result[k].gid = ToString(remote.sheets[k].sheetId)
                        /\ ret.result[k].name = remote.sheets[k].title
                  /\ ret.notices = <<"success:api">>
            /\ (remote.kind = "metadata" /\ remote.sheets = <<>>) =>
                  ret.result = <<>> /\ ret.notices = <<"warning:no_sheets">>
            /\ remote.kind = "http" =>
                  /\ ret.result = <<>>
                  /\ ret.notices = <<IF remote.status = 403 THEN "error:permission_denied"
                                     ELSE IF remote.status = 404 THEN "error:not_found"
                                     ELSE "error:api">>
            /\ remote.kind = "exception" =>
                  ret.result = <<>> /\ ret.notices = <<"error:exception">>

\* two descriptors with the same id come back as two entries, in their order
C14_Witness ==
    /\ WasListed /\ sheets_service # None
    /\ call.remote = [kind |-> "metadata",
                      sheets |-> <<[sheetId |-> 7, title |-> "S2"],
                                   [sheetId |-> 0, title |-> "S1"]>>]
    /\ ret.result = <<[gid |-> "7", name |-> "S2"], [gid |-> "0", name |-> "S1"]>>

\* the first pattern, in priority order, that finds something in the page
FirstMatching(matches) ==
    CHOOSE k \in 1..Len(matches) :
        matches[k] # <<>> /\ \A j \in 1..(k - 1) : matches[j] = <<>>

\* C15: without a service the result is made of the matches of the first
\* pattern that finds any, and of no other pattern, each match giving title
\* and id; a page in which no pattern finds anything gives exactly the entry
\* {gid "0", name "Sheet1"}; a transport failure gives the empty list.
C15_FirstMatchingPattern ==
    (WasListed /\ sheets_service = None) =>
        LET remote == call.remote
        IN  /\ (remote.kind = "page"
                    /\ \E k \in 1..4 : remote.matches[k] # <<>>) =>
                  LET k     == FirstMatching(remote.matches)
                      found == remote.matches[k]
                  IN  /\ Len(ret.result) = Len(found)
                      /\ \A i \in 1..Len(found) :
                            IF k = 4
                            THEN ret.result[i] = [gid |-> found[i][1], name |-> found[i][2]]
                            ELSE ret.result[i] = [gid |-> found[i][2], name |-> found[i][1]]
            /\ (remote.kind = "page"
                    /\ \A k \in 1..4 : remote.matches[k] = <<>>) =>
                  ret.result = <<[gid |-> "0", name |-> "Sheet1"]>>
            /\ remote.kind \in {"http", "exception"} => ret.result = <<>>

\* the second and the fourth pattern both find worksheets: only the second's
\* matches are returned
C15_Witness ==
    /\ WasListed /\ sheets_service = None
    /\ call.remote = [kind |-> "page",
                      matches |-> <<<<>>, <<<<"S1", "0">>>>, <<>>,
                                    <<<<"0", "S1">>, <<"7", "S2">>>>>>]
    /\ ret.result = <<[gid |-> "0", name |-> "S1"]>>

-----------------------------------------------------------------------------
(* SpecCombine: combine_sheets applied to every collection of at most      *)
(* MaxCombine sheets, each added from a worksheet of a header row and two  *)
(* data rows.  The cache is empty or holds the table of an earlier combine *)
(* (sheets may have been added and removed since); the call remembers it   *)
(* in `cached`.                                                            *)

MaxCombine == 2

MaxCombineCols == 2

CombineHeaders ==
    (SeqsUpTo({"A", "B", "C"}, MaxCombineCols) \ {<<>>}) \cup {<<"A", "A", "A_1">>}

\* the sheet that add_sheet retains for a worksheet with the header row h
SheetOf(h) ==
    add_sheet(Service,
              [kind |-> "values",
               values |-> <<h, RowAt(2, Len(h)), RowAt(3, Len(h))>>],
              DocId,
              [gid |-> "11", name |-> IF h[1] = "A" THEN "S1" ELSE "S2"],
              1, None).sheet

\* the table cached by a combine of the sheet with the columns B, C
EarlierCombined == combine_sheets(<<SheetOf(<<"B", "C">>)>>).df

InitCombine ==
    /\ sheets_data \in SeqsUpTo({SheetOf(h) : h \in CombineHeaders}, MaxCombine)
    /\ combined_data \in {EmptyDataFrame, EarlierCombined}
    /\ sheets_service = Service
    /\ google_sheets_service = Service
    /\ available_sheets_info = <<>>
    /\ last_sheet_url_input = <<>>
    /\ current_sheet_url_input = <<>>
    /\ call = [op |-> "combine_sheets", cached |-> combined_data]
    /\ ret = Pending

\* a call of combine_sheets: the concatenation is cached only when it is built
CombineCall ==
    /\ call.op = "combine_sheets"
    /\ ret = Pending
    /\ LET r == combine_sheets(sheets_data)
       IN  /\ ret' = [ok |-> r.error = None, error |-> r.error, calls |-> <<>>]
           /\ combined_data' = IF r.error = None THEN r.df ELSE combined_data
    /\ UNCHANGED <<sheets_data, sheets_service, google_sheets_service,
                   available_sheets_info, last_sheet_url_input,
                   current_sheet_url_input, call>>

NextCombine == CombineCall

SpecCombine == InitCombine /\ [][NextCombine]_vars

\* the number of rows held by the sheets before sheet k
RECURSIVE RowsBefore(_, _)
RowsBefore(sheets, k) ==
    IF k <= 1 THEN 0
    ELSE RowsBefore(sheets, k - 1) + Len(sheets[k - 1].data.rows)

TotalRows(sheets) == RowsBefore(sheets, Len(sheets) + 1)

\* where a column name is first seen: <<sheet, position in that sheet>>
FirstSeen(sheets, name) ==
    LET k == CHOOSE k \in 1..Len(sheets) :
                 /\ name \in Range(sheets[k].data.columns)
                 /\ \A j \in 1..(k - 1) : name \notin Range(sheets[j].data.columns)
        c == CHOOSE c \in 1..Len(sheets[k].data.columns) :
                 /\ sheets[k].data.columns[c] = name
                 /\ \A d \in 1..(c - 1) : sheets[k].data.columns[d] # name
    IN  <<k, c>>

Before(x, y) == x[1] < y[1] \/ (x[1] = y[1] /\ x[2] < y[2])

\* t's columns are the union of the sheets' columns in first-seen order
IsOrderedUnion(t, sheets) ==
    /\ \A k \in 1..Len(sheets) : Range(sheets[k].data.columns) \subseteq Range(t.columns)
    /\ \A c \in 1..Len(t.columns) :
          \E k \in 1..Len(sheets) : t.columns[c] \in Range(sheets[k].data.columns)
    /\ \A c, d \in 1..Len(t.columns) :
          c < d => Before(FirstSeen(sheets, t.columns[c]), FirstSeen(sheets, t.columns[d]))

\* t's rows are the sheets' rows in insertion order; a column absent from a
\* row's sheet holds `missing`
IsConcatenation(t, sheets, missing) ==
    /\ Len(t.rows) = TotalRows(sheets)
    /\ \A k \in 1..Len(sheets) :
          \A r \in 1..Len(sheets[k].data.rows) :
              LET row  == t.rows[RowsBefore(sheets, k) + r]
                  cols == sheets[k].data.columns
              IN  /\ Len(row) = Len(t.columns)
                  /\ \A c \in 1..Len(t.columns) :
                        IF t.columns[c] \in Range(cols)
                        THEN \E d \in 1..Len(cols) :
                                 /\ cols[d] = t.columns[c]
                                 /\ row[c] = sheets[k].data.rows[r][d]
                        ELSE row[c] = missing

Combined == call.op = "combine_sheets" /\ ret # Pending /\ sheets_data # <<>>

NamesRepeat(sheets) == \E k \in 1..Len(sheets) : HasDuplicates(sheets[k].data.columns)

SameColumns(sheets) ==
    \A k \in 1..Len(sheets) : sheets[k].data.columns = sheets[1].data.columns

\* C1 as stated, already for sheets none of which repeats a column name: the
\* combined columns are the union of the sheets' columns in first-seen order,
\* the rows are the sheets' rows in insertion order, and a column absent from
\* a row's sheet holds the empty string.
C1_UnionWithEmptyString ==
    (Combined /\ ~NamesRepeat(sheets_data)) =>
        /\ ret.ok
        /\ IsOrderedUnion(combined_data, sheets_data)
        /\ IsConcatenation(combined_data, sheets_data, "")

\* C1 as amended: the same, with NaN (not '') in the absent columns; for
\* sheets whose column names repeat, combine stacks them when all sheets have
\* the same column list and raises, caching nothing, when they do not.
C1_UnionWithNaN ==
    Combined =>
        IF ~NamesRepeat(sheets_data)
        THEN /\ ret.ok
             /\ IsOrderedUnion(combined_data, sheets_data)
             /\ IsConcatenation(combined_data, sheets_data, NaN)
        ELSE IF SameColumns(sheets_data)
        THEN /\ ret.ok
             /\ combined_data.columns = sheets_data[1].data.columns
             /\ Len(combined_data.rows) = TotalRows(sheets_data)
             /\ \A k \in 1..Len(sheets_data) :
                   \A r \in 1..Len(sheets_data[k].data.rows) :
                       combined_data.rows[RowsBefore(sheets_data, k) + r]
                           = sheets_data[k].data.rows[r]
        ELSE ~ret.ok /\ combined_data = call.cached

\* columns {A,B} and {B,C}: sheet 1's rows hold NaN in C, sheet 2's in A
C1_Witness ==
    /\ Combined /\ ret.ok
    /\ Len(sheets_data) = 2
    /\ sheets_data[1].data.columns = <<"A", "B", "_source_sheet">>
    /\ sheets_data[2].data.columns = <<"B", "C", "_source_sheet">>
    /\ combined_data.columns = <<"A", "B", "_source_sheet", "C">>
    /\ combined_data.rows[1] = <<"r2c1", "r2c2", "S1", NaN>>
    /\ combined_data.rows[3] = <<NaN, "r2c1", "S2", "r2c2">>

\* C11: combine_sheets on an empty collection fails with the no-sheets error
\* (ValueError) and leaves the collection and the cached table as they were;
\* on a non-empty collection it never fails with that error.
C11_NoSheetsError ==
    (call.op = "combine_sheets" /\ ret # Pending) =>
        IF sheets_data = <<>>
        THEN /\ ~ret.ok /\ ret.error = "ValueError"
             /\ combined_data = call.cached
        ELSE ret.error # "ValueError"

\* no sheet is held and the cache holds an earlier table: it is still there
C11_Witness ==
    /\ call.op = "combine_sheets" /\ ret # Pending
    /\ sheets_data = <<>>
    /\ ret.error = "ValueError"
    /\ combined_data = EarlierCombined
    /\ Len(combined_data.rows) = 2

-----------------------------------------------------------------------------
(* Spec: the session.  Every action is one user event with the script runs *)
(* it causes: the URL block of the sidebar (lines 572-587) is evaluated in *)
(* every run, the handler of the clicked widget runs at its place in the   *)
(* script, and st.rerun() starts a further run.  The remote document has   *)
(* the worksheets S1, S2 and the empty S3; what an endpoint answers to a   *)
(* call is chosen by the environment.                                      *)

Worksheets ==
    << [sheetId |-> 11, title |-> "S1", values |-> <<<<"A", "B">>, <<"a1", "b1">>>>],
       [sheetId |-> 22, title |-> "S2", values |-> <<<<"B", "C">>, <<"b2", "c2">>>>],
       [sheetId |-> 33, title |-> "S3", values |-> <<>>] >>

Descriptors ==
    [k \in 1..Len(Worksheets) |->
        [sheetId |-> Worksheets[k].sheetId, title |-> Worksheets[k].title]]

Listed ==
    [k \in 1..Len(Worksheets) |->
        [gid |-> ToString(Worksheets[k].sheetId), name |-> Worksheets[k].title]]

\* what the first three patterns, and what the fourth, find of the worksheets
NameGidPairs == [k \in 1..Len(Worksheets) |-> <<Listed[k].name, Listed[k].gid>>]

GidNamePairs == [k \in 1..Len(Worksheets) |-> <<Listed[k].gid, Listed[k].name>>]

\* what the directory endpoints can answer
ListRemotes(service) ==
    IF service # None
    THEN {[kind |-> "metadata", sheets |-> Descriptors],
          [kind |-> "metadata", sheets |-> <<>>],
          [kind |-> "http", status |-> 403], [kind |-> "http", status |-> 404],
          [kind |-> "http", status |-> 500], [kind |-> "exception"]}
    ELSE {[kind |-> "page", matches |-> <<NameGidPairs, <<>>, <<>>, <<>>>>],
          [kind |-> "page", matches |-> <<<<>>, <<>>, <<>>, GidNamePairs>>],
          [kind |-> "page", matches |-> <<<<>>, <<>>, <<>>, <<>>>>],
          [kind |-> "http", status |-> 401], [kind |-> "http", status |-> 404],
          [kind |-> "exception"]}

\* what the data endpoints can answer for a worksheet: the authenticated
\* channel looks it up by name, the public export by gid
FetchRemotes(service, sheet_info) ==
    LET found == {k \in 1..Len(Worksheets) :
                     IF service # None
                     THEN Worksheets[k].title = sheet_info.name
                     ELSE ToString(Worksheets[k].sheetId) = sheet_info.gid}
    IN  {[kind |-> "values", values |-> Worksheets[k].values] : k \in found}
        \cup (IF found = {} THEN {[kind |-> "http", status |-> 400]} ELSE {})
        \cup {[kind |-> "http", status |-> 403], [kind |-> "exception"]}
        \cup (IF service = None THEN {[kind |-> "html"]} ELSE {})

\* the URL box is empty, holds the document's URL (its path alone) or holds
\* a URL without identifier
SheetUrl == pattern \o <<"1", "A", "/">>

UrlChoices == {<<>>, SheetUrl, <<"n", "o">>}

HeaderRowChoices == 1..2

Call(fn, service, contacted) ==
    [fn |-> fn, held |-> service # None, contacted |-> contacted]

\* lines 572-587: a new non-empty URL is resolved and its worksheets listed
WillList(cur, last) == cur # <<>> /\ cur # last /\ extract_sheet_id(cur).ok

UrlBlock(cur, last, avail, service, remote) ==
    IF cur # <<>> /\ cur # last
    THEN IF extract_sheet_id(cur).ok
         THEN LET info == get_sheet_info(service, remote)
              IN  [avail |-> info.result, last |-> cur, notices |-> info.notices,
                   calls |-> <<Call("get_sheet_info", service, info.contacted)>>]
         ELSE [avail |-> <<>>, last |-> last, notices |-> <<"error:invalid_url">>,
               calls |-> <<>>]
    ELSE [avail |-> avail, last |-> last, notices |-> <<>>, calls |-> <<>>]

ListChoices(cur, last, service) ==
    IF WillList(cur, last) THEN ListRemotes(service) ELSE {[kind |-> "none"]}

Init ==
    /\ FreshSession(None)
    /\ call = [op |-> "start"]
    /\ ret = [ok |-> TRUE, notices |-> <<>>, calls |-> <<>>]

\* lines 540-550 and 553-559: the session and the Combiner get the same service
SetService(service) ==
    /\ \E remote \in ListChoices(current_sheet_url_input, last_sheet_url_input, service) :
          LET u == UrlBlock(current_sheet_url_input, last_sheet_url_input,
                            available_sheets_info, service, remote)
          IN  /\ available_sheets_info' = u.avail
              /\ last_sheet_url_input' = u.last
              /\ ret' = [ok |-> TRUE, notices |-> u.notices, calls |-> u.calls]
    /\ google_sheets_service' = service
    /\ sheets_service' = service
    /\ UNCHANGED <<sheets_data, combined_data, current_sheet_url_input>>

Connect ==
    /\ google_sheets_service = None
    /\ call' = [op |-> "connect"]
    /\ SetService(Service)

Disconnect ==
    /\ google_sheets_service # None
    /\ call' = [op |-> "disconnect"]
    /\ SetService(None)

\* lines 543-545: the authentication gives no service (credentials missing,
\* the token exchange failed); nothing is set and the run goes on
ConnectFailed ==
    /\ google_sheets_service = None
    /\ call' = [op |-> "connect_failed"]
    /\ \E remote \in ListChoices(current_sheet_url_input, last_sheet_url_input,
                                 sheets_service) :
          LET u == UrlBlock(current_sheet_url_input, last_sheet_url_input,
                            available_sheets_info, sheets_service, remote)
          IN  /\ available_sheets_info' = u.avail
              /\ last_sheet_url_input' = u.last
              /\ ret' = [ok |-> FALSE, notices |-> <<"error:authentication">> \o u.notices,
                         calls |-> u.calls]
    /\ UNCHANGED <<sheets_data, combined_data, sheets_service, google_sheets_service,
                   current_sheet_url_input>>

\* the user changes the text of the URL box
EditUrl(url) ==
    /\ url # current_sheet_url_input
    /\ current_sheet_url_input' = url
    /\ call' = [op |-> "url", url |-> url]
    /\ \E remote \in ListChoices(url, last_sheet_url_input, sheets_service) :
          LET u == UrlBlock(url, last_sheet_url_input, available_sheets_info,
                            sheets_service, remote)
          IN  /\ available_sheets_info' = u.avail
              /\ last_sheet_url_input' = u.last
              /\ ret' = [ok |-> u.avail # <<>>, notices |-> u.notices, calls |-> u.calls]
    /\ UNCHANGED <<sheets_data, combined_data, sheets_service, google_sheets_service>>

\* next(sheet for sheet in available_sheets_info if sheet['name'] == selected_sheet)
SelectedInfo(avail, selected_sheet) ==
    avail[CHOOSE k \in 1..Len(avail) :
             /\ avail[k].name = selected_sheet
             /\ \A j \in 1..(k - 1) : avail[j].name # selected_sheet]

\* lines 623-637: the Add button
Add(selected_sheet, header_row, custom_name) ==
    /\ Len(sheets_data) < MaxSheets
    /\ \E k \in 1..Len(available_sheets_info) :
          available_sheets_info[k].name = selected_sheet
    /\ call' = [op |-> "add", selected_sheet |-> selected_sheet,
                header_row |-> header_row, custom_name |-> custom_name]
    /\ LET info == SelectedInfo(available_sheets_info, selected_sheet)
           x    == extract_sheet_id(current_sheet_url_input)
       IN  IF ~x.ok
           THEN /\ ret' = [ok |-> FALSE, notices |-> <<"exception:ValueError">>,
                           calls |-> <<>>]
                /\ sheets_data' = sheets_data
           ELSE \E remote \in FetchRemotes(sheets_service, info) :
                   LET a == add_sheet(sheets_service, remote, x.id, info, header_row,
                                      IF custom_name # selected_sheet
                                      THEN custom_name ELSE None)
                   IN  /\ sheets_data' = IF a.ok THEN Append(sheets_data, a.sheet)
                                         ELSE sheets_data
                       /\ ret' = [ok |-> a.ok, rows |-> Len(a.fetched.df.rows),
                                  notices |-> a.fetched.notices,
                                  calls |-> <<Call("fetch_sheet_data", sheets_service,
                                                   a.fetched.contacted)>>]
    /\ UNCHANGED <<combined_data, sheets_service, google_sheets_service,
                   available_sheets_info, last_sheet_url_input,
                   current_sheet_url_input>>

\* lines 690-693: the Remove button of the sheet at `position` (1-based)
Remove(position) ==
    /\ position \in 1..Len(sheets_data)
    /\ sheets_data' = Pop(sheets_data, position)
    /\ call' = [op |-> "remove", position |-> position]
    /\ ret' = [ok |-> TRUE, notices |-> <<>>, calls |-> <<>>]
    /\ UNCHANGED <<combined_data, sheets_service, google_sheets_service,
                   available_sheets_info, last_sheet_url_input,
                   current_sheet_url_input>>

\* lines 703-711: the Combine button, shown while sheets are held
Combine ==
    /\ sheets_data # <<>>
    /\ \E k \in 1..Len(sheets_data) : ~IsEmpty(sheets_data[k].data)
    /\ call' = [op |-> "combine"]
    /\ LET r == combine_sheets(sheets_data)
       IN  /\ ret' = [ok |-> r.error = None,
                      notices |-> IF r.error = None THEN <<>> ELSE <<"error:combine">>,
                      calls |-> <<>>]
           /\ combined_data' = IF r.error = None THEN r.df ELSE combined_data
    /\ UNCHANGED <<sheets_data, sheets_service, google_sheets_service,
                   available_sheets_info, last_sheet_url_input,
                   current_sheet_url_input>>

\* a new Combiner that is left as constructed, without a service
AsConstructed(service) == None

\* lines 650-652: the new Combiner is given the session's service, if any
CarriedOver(service) == IF service # None THEN service ELSE None

\* lines 649-656: a new Combiner, given the session's service; the run that
\* st.rerun() starts finds the URL box different from the forgotten URL
Clear ==
    /\ call' = [op |-> "clear"]
    /\ sheets_data' = <<>>
    /\ combined_data' = EmptyDataFrame
    /\ sheets_service' = CarriedOver(google_sheets_service)
    /\ \E remote \in ListChoices(current_sheet_url_input, <<>>, sheets_service') :
          LET u == UrlBlock(current_sheet_url_input, <<>>, <<>>, sheets_service', remote)
          IN  /\ available_sheets_info' = u.avail
              /\ last_sheet_url_input' = u.last
              /\ ret' = [ok |-> TRUE, notices |-> u.notices, calls |-> u.calls]
    /\ UNCHANGED <<google_sheets_service, current_sheet_url_input>>

\* lines 659-660: the Refresh button only starts a new run
Refresh ==
    /\ call' = [op |-> "refresh"]
    /\ \E remote \in ListChoices(current_sheet_url_input, last_sheet_url_input,
                                 sheets_service) :
          LET u == UrlBlock(current_sheet_url_input, last_sheet_url_input,
                            available_sheets_info, sheets_service, remote)
          IN  /\ available_sheets_info' = u.avail
              /\ last_sheet_url_input' = u.last
              /\ ret' = [ok |-> TRUE, notices |-> u.notices, calls |-> u.calls]
    /\ UNCHANGED <<sheets_data, combined_data, sheets_service, google_sheets_service,
                   current_sheet_url_input>>

\* lines 663 and 725: the combined table is previewed, summarised and offered
\* for download while sheets are held and the cached table is not empty
Shown == sheets_data # <<>> /\ ~IsEmpty(combined_data)

\* the custom name box is left at its default, the selected worksheet's name
AddSelected ==
    \E k \in 1..Len(available_sheets_info), header_row \in HeaderRowChoices :
        Add(available_sheets_info[k].name, header_row, available_sheets_info[k].name)

ChangeUrl == \E url \in UrlChoices : EditUrl(url)

RemoveSheet == \E position \in 1..MaxSheets : Remove(position)

Next ==
    \/ Connect
    \/ ConnectFailed
    \/ Disconnect
    \/ ChangeUrl
    \/ AddSelected
    \/ RemoveSheet
    \/ Combine
    \/ Clear
    \/ Refresh

Spec == Init /\ [][Next]_vars

\* Between two user events the URL box is empty, holds the URL last listed,
\* or holds a URL without identifier; then no worksheet is on offer.
UrlSettled ==
    \/ current_sheet_url_input = <<>>
    \/ current_sheet_url_input = last_sheet_url_input
    \/ ~extract_sheet_id(current_sheet_url_input).ok /\ available_sheets_info = <<>>

-----------------------------------------------------------------------------
(* SpecAdd: one click on Add for a listed worksheet, with every content of *)
(* the custom-name box (left at the worksheet's name, emptied, or a name   *)
(* of the user's), on either path.                                         *)

CustomNames == {"", "Mine"}

AddGrids == {<<<<"A", "B">>, <<"a1", "b1">>>>,
             <<<<"A">>, <<"a1">>, <<"a2">>>>,
             <<<<"A", "B">>>>}

AddCalls ==
    {[op |-> "add_sheet", sheet_info |-> [gid |-> g[1], name |-> g[2]],
      custom_name |-> c, header_row |-> h, remote |-> r] :
        g \in {<<"11", "S1">>, <<"22", "S2">>},
        c \in CustomNames \cup {"S1", "S2"},
        h \in HeaderRowChoices,
        r \in {[kind |-> "values", values |-> v] : v \in AddGrids}
              \cup {[kind |-> "http", status |-> 403]}}

InitAdd ==
    /\ \E service \in {None, Service} : FreshSession(service)
    /\ call \in AddCalls
    /\ ret = Pending

\* lines 625-630: add_sheet as the Add button calls it
AddCall ==
    /\ call.op = "add_sheet"
    /\ ret = Pending
    /\ LET a == add_sheet(sheets_service, call.remote, DocId, call.sheet_info,
                          call.header_row,
                          IF call.custom_name # call.sheet_info.name
                          THEN call.custom_name ELSE None)
       IN  /\ sheets_data' = IF a.ok THEN Append(sheets_data, a.sheet) ELSE sheets_data
           /\ ret' = [ok |-> a.ok, notices |-> a.fetched.notices, calls |-> <<>>]
    /\ UNCHANGED <<combined_data, sheets_service, google_sheets_service,
                   available_sheets_info, last_sheet_url_input,
                   current_sheet_url_input, call>>

NextAdd == AddCall

SpecAdd == InitAdd /\ [][NextAdd]_vars

\* the user typed a name of their own into the custom-name box
CustomGiven == call.custom_name \notin {"", call.sheet_info.name}

\* C18: a sheet added with a custom name has it as display name and as the
\* provenance value of its rows in the combined data; a sheet added without
\* one has the worksheet's name as display name.
C18_CustomNameIsProvenance ==
    (call.op = "add_sheet" /\ ret # Pending /\ ret.ok) =>
        LET sheet    == sheets_data[Len(sheets_data)]
            combined == combine_sheets(sheets_data).df
            p        == PositionOf(combined.columns, "_source_sheet")
        IN  IF CustomGiven
            THEN /\ sheet.display_name = call.custom_name
                 /\ \A r \in 1..Len(combined.rows) :
                       combined.rows[r][p] = call.custom_name
            ELSE sheet.display_name = call.sheet_info.name

-----------------------------------------------------------------------------
(* Properties of the session, over Spec *)

\* C2: an add whose fetch yields no data row (an empty worksheet, a header
\* row with nothing after it, a failure downgraded to an empty table) reports
\* rejection and leaves the sheet collection as it was; every retained sheet
\* has at least one data row.
C2_RejectedAddKeepsSheets ==
    /\ [](\A k \in 1..Len(sheets_data) : Len(sheets_data[k].data.rows) >= 1)
    /\ [][call'.op = "add" =>
            /\ ("rows" \in DOMAIN ret' /\ ret'.rows = 0) => ~ret'.ok
            /\ ~ret'.ok => sheets_data' = sheets_data]_vars

\* a failed fetch after a sheet was added: the add is rejected, the sheet kept
C2_Witness ==
    /\ call.op = "add"
    /\ ~ret.ok
    /\ "rows" \in DOMAIN ret /\ ret.rows = 0
    /\ ret.notices = <<"error:permission_denied">>
    /\ Len(sheets_data) = 1

\* C3: remove(position) deletes exactly the sheet at that position and shifts
\* every later sheet down by one, the others keeping their order; a combine
\* that succeeds holds the rows of the sheets then held, and no other row.
C3_RemoveShifts ==
    [][/\ call'.op = "remove" =>
            /\ Len(sheets_data') = Len(sheets_data) - 1
            /\ \A k \in 1..Len(sheets_data') :
                  sheets_data'[k] = IF k < call'.position THEN sheets_data[k]
                                    ELSE sheets_data[k + 1]
       /\ (call'.op = "combine" /\ ret'.ok) =>
            IsConcatenation(combined_data', sheets_data', NaN)]_vars

\* position 1 of the three sheets S1, S2, S1 removed after a combine: the
\* former position 2 is the new position 1
C3_Witness ==
    /\ call = [op |-> "remove", position |-> 1]
    /\ Len(combined_data.rows) = 3
    /\ combined_data.rows[1][3] = "S1" /\ combined_data.rows[2][3] = "S2"
    /\ Len(sheets_data) = 2
    /\ sheets_data[1].name = "S2"
    /\ sheets_data[2].name = "S1"

\* C4: every call of get_sheet_info and of fetch_sheet_data contacts exactly
\* one channel: the authenticated one when the Combiner holds a service at
\* the call (also when that call fails), the public one otherwise.
C4_OneChannelPerCall ==
    \A k \in 1..Len(ret.calls) :
        ret.calls[k].contacted = IF ret.calls[k].held THEN {"authenticated"}
                                 ELSE {"public"}

\* an authenticated fetch that failed: the public export was not contacted
C4_Witness ==
    /\ call.op = "add"
    /\ sheets_service # None
    /\ ~ret.ok
    /\ ret.notices = <<"error:exception">>
    /\ ret.calls = <<[fn |-> "fetch_sheet_data", held |-> TRUE,
                      contacted |-> {"authenticated"}]>>

RECURSIVE SumRows(_)
SumRows(stats) == IF stats = <<>> THEN 0 ELSE Head(stats).rows + SumRows(Tail(stats))

\* C16: whenever the summary is shown, the columns, the total row count and
\* the total column count it reports are those of the combination of the
\* sheets held, and the total row count is the sum of the per-sheet row
\* counts of the same summary.
C16_SummaryDescribesSheets ==
    Shown =>
        LET summary == get_summary(sheets_data, combined_data)
            now     == combine_sheets(sheets_data)
        IN  /\ summary.total_rows = SumRows(summary.sheets)
            /\ now.error = None =>
                  /\ summary.columns = now.df.columns
                  /\ summary.total_columns = Len(now.df.columns)

\* C17: one user event makes at most one remote call; submitting a URL with
\* an identifier when no worksheet is listed (the listing failed or returned
\* nothing, or none was made) makes a new listing call, also for the URL
\* submitted before; a click on Add for a resolvable URL makes one fetch.
C17_RetryOnlyByUser ==
    [][/\ Len(ret'.calls) <= 1
       /\ (call'.op = "url" /\ extract_sheet_id(call'.url).ok
               /\ available_sheets_info = <<>>) =>
             /\ Len(ret'.calls) = 1
             /\ ret'.calls[1].fn = "get_sheet_info"
       /\ (call'.op = "add" /\ extract_sheet_id(current_sheet_url_input).ok) =>
             /\ Len(ret'.calls) = 1
             /\ ret'.calls[1].fn = "fetch_sheet_data"]_vars

\* C19: whenever a combined table is shown and offered for export it is the
\* concatenation of the sheets held at that moment.
C19_CombinedIsDerived ==
    Shown =>
        /\ combine_sheets(sheets_data).error = None
        /\ combined_data = combine_sheets(sheets_data).df

\* C20: after Clear All no sheet is held, the cached table is empty, no
\* worksheet is listed, no URL is remembered, the Combiner holds the service
\* it held before, and combine_sheets fails with the no-sheets error.
C20_ClearResets ==
    [][call'.op = "clear" =>
          /\ sheets_data' = <<>>
          /\ combined_data' = EmptyDataFrame
          /\ available_sheets_info' = <<>>
          /\ last_sheet_url_input' = <<>>
          /\ sheets_service' = sheets_service
          /\ google_sheets_service' = google_sheets_service
          /\ combine_sheets(sheets_data').error = "ValueError"]_vars

\* C21: in every reachable state the Combiner holds the session's service:
\* both are absent or both are the same service; every remote call of an
\* event goes through the authenticated channel when the session holds a
\* service and through the public one when it holds none.
C21_SameChannel ==
    /\ sheets_service = google_sheets_service
    /\ \A k \in 1..Len(ret.calls) :
          ret.calls[k].contacted = IF google_sheets_service # None
                                   THEN {"authenticated"} ELSE {"public"}

\* Clear All in a connected session: the new Combiner has the session's
\* service and lists the worksheets through it
C21_Witness ==
    /\ call.op = "clear"
    /\ google_sheets_service = Service
    /\ sheets_service = Service
    /\ Len(ret.calls) = 1
    /\ ret.calls[1] = [fn |-> "get_sheet_info", held |-> TRUE,
                        contacted |-> {"authenticated"}]

=============================================================================
